---------------------------- MODULE Spec2Model ----------------------------
(***************************************************************************)
(* A model of MagicJSON (src/source/magic-json.ts): a JSON parse/stringify *)
(* layer that detects the indentation, the line-ending style and the final *)
(* end of line of a text at parse() and replays them at stringify().       *)
(*                                                                         *)
(* A text is a sequence of one-character strings.  A JavaScript value is a *)
(* record with a "type" field.  JSON.parse and JSON.stringify, which the   *)
(* class calls under the hood, are modelled for the JSON subset made of    *)
(* objects, arrays, unescaped strings, non-negative integers, true, false  *)
(* and null.                                                               *)
(***************************************************************************)
EXTENDS Integers, Sequences, FiniteSets, TLC

----------------------------------------------------------------------------
(* Characters and texts *)

SP  == " "
TAB == "\t"
LF  == "\n"
CR  == "\r"
QUOTE == "\""

Digits == <<"0", "1", "2", "3", "4", "5", "6", "7", "8", "9">>

IsDigit(c) == \E d \in 1..Len(Digits) : Digits[d] = c

DigitVal(c) == (CHOOSE d \in 1..Len(Digits) : Digits[d] = c) - 1

\* String.prototype.charAt with a 0-based position: '' out of range.
CharAt(text, p) == IF p >= 0 /\ p < Len(text) THEN text[p + 1] ELSE ""

\* String.prototype.slice(from, to) with 0-based positions, to exclusive,
\* both clamped to the text.
Slice(text, from, to) ==
    LET a == IF from < 0 THEN 0 ELSE IF from > Len(text) THEN Len(text) ELSE from
        b == IF to < 0 THEN 0 ELSE IF to > Len(text) THEN Len(text) ELSE to
    IN  IF a >= b THEN <<>> ELSE SubSeq(text, a + 1, b)

\* String.prototype.indexOf(c, pos): the 0-based position of the first c at
\* or after pos, or -1.
RECURSIVE IndexOf(_, _, _)
IndexOf(text, c, pos) ==
    IF pos >= Len(text) THEN -1
    ELSE IF text[pos + 1] = c THEN pos
    ELSE IndexOf(text, c, pos + 1)

RECURSIVE Repeat(_, _)
Repeat(s, n) == IF n <= 0 THEN <<>> ELSE s \o Repeat(s, n - 1)

\* String.prototype.replaceAll('\n', '\r\n').
RECURSIVE ReplaceAllLF(_)
ReplaceAllLF(text) ==
    IF text = <<>> THEN <<>>
    ELSE (IF Head(text) = LF THEN <<CR, LF>> ELSE <<Head(text)>>)
         \o ReplaceAllLF(Tail(text))

----------------------------------------------------------------------------
(* JavaScript values *)

Undefined == [type |-> "undefined"]
JNull     == [type |-> "null"]
JBool(b)  == [type |-> "boolean", val |-> b]
JNum(n)   == [type |-> "number", val |-> n]
JStr(s)   == [type |-> "string", val |-> s]
JArr(es)  == [type |-> "array", elems |-> es]
JObj(ms)  == [type |-> "object", members |-> ms]
Member(k, v) == [key |-> k, value |-> v]

\* typeof v === 'object' && v !== null
IsObject(v) == v.type \in {"array", "object"}

----------------------------------------------------------------------------
(* JSON.parse *)

IsWs(c) == c \in {SP, TAB, LF, CR}

RECURSIVE SkipWs(_, _)
SkipWs(s, i) == IF IsWs(CharAt(s, i)) THEN SkipWs(s, i + 1) ELSE i

ParseFail == [ok |-> FALSE, v |-> Undefined, i |-> 0]
ParseOk(v, i) == [ok |-> TRUE, v |-> v, i |-> i]

\* The position of the quote closing a string whose content starts at i, or
\* -1: a control character is not allowed in a string, and escape sequences
\* are outside the modelled subset.
RECURSIVE ScanString(_, _)
ScanString(s, i) ==
    LET c == CharAt(s, i)
    IN  IF c = QUOTE THEN i
        ELSE IF c \in {"", LF, CR, TAB, "\\"} THEN -1
        ELSE ScanString(s, i + 1)

RECURSIVE ScanDigits(_, _)
ScanDigits(s, i) == IF IsDigit(CharAt(s, i)) THEN ScanDigits(s, i + 1) ELSE i

RECURSIVE NumVal(_)
NumVal(ds) ==
    IF ds = <<>> THEN 0
    ELSE 10 * NumVal(SubSeq(ds, 1, Len(ds) - 1)) + DigitVal(ds[Len(ds)])

\* An array index key ("0", "1", "10": canonical digits) is ordered before
\* the string keys of an object, ascending.
IsIndexKey(k) ==
    /\ k # <<>>
    /\ \A j \in 1..Len(k) : IsDigit(k[j])
    /\ (Len(k) = 1 \/ k[1] # "0")

KeyBefore(k, other) ==
    /\ IsIndexKey(k)
    /\ (~IsIndexKey(other) \/ NumVal(k) < NumVal(other))

\* obj[k] = v on an ordinary object: an existing key keeps its place.
ObjSet(ms, k, v) ==
    IF \E j \in 1..Len(ms) : ms[j].key = k
    THEN [j \in 1..Len(ms) |-> IF ms[j].key = k THEN Member(k, v) ELSE ms[j]]
    ELSE LET n == Cardinality({j \in 1..Len(ms) : ~KeyBefore(k, ms[j].key)})
         IN  SubSeq(ms, 1, n) \o <<Member(k, v)>> \o SubSeq(ms, n + 1, Len(ms))

Literals == << <<"null", JNull>>, <<"true", JBool(TRUE)>>, <<"false", JBool(FALSE)>> >>

LiteralText(name) ==
    CASE name = "null"  -> <<"n", "u", "l", "l">>
      [] name = "true"  -> <<"t", "r", "u", "e">>
      [] name = "false" -> <<"f", "a", "l", "s", "e">>

RECURSIVE ParseValue(_, _)
RECURSIVE ParseMembers(_, _, _)
RECURSIVE ParseElements(_, _, _)

\* The value starting at position i (0-based) of s, which is not whitespace.
ParseValue(s, i) ==
    LET c == CharAt(s, i)
    IN  CASE c = "{" ->
               LET j == SkipWs(s, i + 1)
               IN  IF CharAt(s, j) = "}" THEN ParseOk(JObj(<<>>), j + 1)
                   ELSE ParseMembers(s, j, <<>>)
          [] c = "[" ->
               LET j == SkipWs(s, i + 1)
               IN  IF CharAt(s, j) = "]" THEN ParseOk(JArr(<<>>), j + 1)
                   ELSE ParseElements(s, j, <<>>)
          [] c = QUOTE ->
               LET q == ScanString(s, i + 1)
               IN  IF q < 0 THEN ParseFail
                   ELSE ParseOk(JStr(Slice(s, i + 1, q)), q + 1)
          [] IsDigit(c) ->
               LET e == IF c = "0" THEN i + 1 ELSE ScanDigits(s, i)
               IN  ParseOk(JNum(NumVal(Slice(s, i, e))), e)
          [] OTHER ->
               IF \E l \in 1..Len(Literals) :
                      Slice(s, i, i + Len(LiteralText(Literals[l][1])))
                          = LiteralText(Literals[l][1])
               THEN LET l == CHOOSE l \in 1..Len(Literals) :
                                 Slice(s, i, i + Len(LiteralText(Literals[l][1])))
                                     = LiteralText(Literals[l][1])
                    IN  ParseOk(Literals[l][2], i + Len(LiteralText(Literals[l][1])))
               ELSE ParseFail

\* The members of an object from position i, the first character of a key.
ParseMembers(s, i, ms) ==
    IF CharAt(s, i) # QUOTE THEN ParseFail
    ELSE
      LET q == ScanString(s, i + 1)
      IN  IF q < 0 THEN ParseFail
          ELSE
            LET k == Slice(s, i + 1, q)
                c == SkipWs(s, q + 1)
            IN  IF CharAt(s, c) # ":" THEN ParseFail
                ELSE
                  LET r == ParseValue(s, SkipWs(s, c + 1))
                  IN  IF ~r.ok THEN ParseFail
                      ELSE
                        LET n == SkipWs(s, r.i)
                            ms2 == ObjSet(ms, k, r.v)
                        IN  CASE CharAt(s, n) = "," -> ParseMembers(s, SkipWs(s, n + 1), ms2)
                              [] CharAt(s, n) = "}" -> ParseOk(JObj(ms2), n + 1)
                              [] OTHER -> ParseFail

\* The elements of an array from position i, the first character of a value.
ParseElements(s, i, es) ==
    LET r == ParseValue(s, i)
    IN  IF ~r.ok THEN ParseFail
        ELSE
          LET n == SkipWs(s, r.i)
              es2 == Append(es, r.v)
          IN  CASE CharAt(s, n) = "," -> ParseElements(s, SkipWs(s, n + 1), es2)
                [] CharAt(s, n) = "]" -> ParseOk(JArr(es2), n + 1)
                [] OTHER -> ParseFail

\* JSON.parse(text): [ok, v]; ok = FALSE stands for the SyntaxError thrown.
JSONparse(text) ==
    LET r == ParseValue(text, SkipWs(text, 0))
    IN  IF r.ok /\ SkipWs(text, r.i) = Len(text)
        THEN [ok |-> TRUE, v |-> r.v]
        ELSE [ok |-> FALSE, v |-> Undefined]

----------------------------------------------------------------------------
(* JSON.stringify *)

RECURSIVE NumText(_)
NumText(n) ==
    IF n < 10 THEN <<Digits[n + 1]>>
    ELSE NumText(n \div 10) \o <<Digits[(n % 10) + 1]>>

QuoteJSONString(s) == <<QUOTE>> \o s \o <<QUOTE>>

\* The replacer functions a caller passes: none, or one that filters the
\* properties named "b" out: (key, value) => key === 'b' ? undefined : value.
Replacers == {"none", "dropB"}

ApplyReplacer(replacer, k, v) ==
    IF replacer = "dropB" /\ k = <<"b">> THEN Undefined ELSE v

\* The gap JSON.stringify derives from its space argument: a number gives
\* that many spaces, a string its own characters, both cut to 10; anything
\* else gives no gap.
Gap(space) ==
    CASE space.type = "number" ->
           Repeat(<<SP>>, IF space.val > 10 THEN 10 ELSE space.val)
      [] space.type = "string" -> Slice(space.val, 0, 10)
      [] OTHER -> <<>>

RECURSIVE JoinTexts(_, _)
JoinTexts(parts, sep) ==
    IF parts = <<>> THEN <<>>
    ELSE IF Len(parts) = 1 THEN parts[1]
    ELSE parts[1] \o sep \o JoinTexts(Tail(parts), sep)

\* A property's text, or none: a property whose value is undefined has none.
NoText == [def |-> FALSE, text |-> <<>>]
SomeText(t) == [def |-> TRUE, text |-> t]

\* The texts of the properties that have one, in order.
RECURSIVE Defined(_)
Defined(parts) ==
    IF parts = <<>> THEN <<>>
    ELSE (IF Head(parts).def THEN <<Head(parts).text>> ELSE <<>>)
         \o Defined(Tail(parts))

RECURSIVE SerializeJSONProperty(_, _, _, _, _)

\* SerializeJSONObject / SerializeJSONArray: the partial texts between the
\* brackets, each on its own line after the indentation when there is a gap.
Bracketed(open, close, partial, gap, indent) ==
    IF partial = <<>> THEN <<open, close>>
    ELSE IF gap = <<>> THEN <<open>> \o JoinTexts(partial, <<",">>) \o <<close>>
    ELSE <<open, LF>> \o indent \o gap
         \o JoinTexts(partial, <<",", LF>> \o indent \o gap)
         \o <<LF>> \o indent \o <<close>>

\* The text of property k with value v, if it has one.
SerializeJSONProperty(k, v, replacer, gap, indent) ==
    LET w == ApplyReplacer(replacer, k, v)
    IN  CASE w.type = "undefined" -> NoText
          [] w.type = "null"      -> SomeText(LiteralText("null"))
          [] w.type = "boolean"   ->
               SomeText(LiteralText(IF w.val THEN "true" ELSE "false"))
          [] w.type = "number"    -> SomeText(NumText(w.val))
          [] w.type = "string"    -> SomeText(QuoteJSONString(w.val))
          [] w.type = "array"     ->
               LET texts == [j \in 1..Len(w.elems) |->
                               SerializeJSONProperty(NumText(j - 1), w.elems[j],
                                                     replacer, gap, indent \o gap)]
                   partial == [j \in 1..Len(texts) |->
                                 IF texts[j].def THEN texts[j].text
                                 ELSE LiteralText("null")]
               IN  SomeText(Bracketed("[", "]", partial, gap, indent))
          [] w.type = "object"    ->
               LET texts == [j \in 1..Len(w.members) |->
                               LET t == SerializeJSONProperty(w.members[j].key,
                                            w.members[j].value, replacer, gap,
                                            indent \o gap)
                               IN  IF ~t.def THEN NoText
                                   ELSE SomeText(
                                          QuoteJSONString(w.members[j].key) \o <<":">>
                                          \o (IF gap = <<>> THEN <<>> ELSE <<SP>>)
                                          \o t.text)]
               IN  SomeText(Bracketed("{", "}", Defined(texts), gap, indent))

\* JSON.stringify(value, replacer, space).  Every modelled value has a text:
\* no modelled replacer drops the root, and undefined is not a value passed.
JSONstringify(value, replacer, space) ==
    SerializeJSONProperty(<<>>, value, replacer, Gap(space), <<>>).text

----------------------------------------------------------------------------
(* MagicJSON.parse: detection of the indentation and of the line endings *)

Abs(n) == IF n < 0 THEN 0 - n ELSE n

\* /^( +|\t+)/.exec(line)?.[1]: the leading run of spaces, or of tabs.
RECURSIVE RunLength(_, _, _)
RunLength(line, c, n) ==
    IF CharAt(line, n) = c THEN RunLength(line, c, n + 1) ELSE n

LineIndentOf(line) ==
    IF CharAt(line, 0) \in {SP, TAB}
    THEN Slice(line, 0, RunLength(line, CharAt(line, 0), 0))
    ELSE <<>>

\* indents[key] = (indents[key] ?? 0) + 1, and indents[key]++ on a key that
\* is there.  The table keeps its keys in insertion order, as for...in
\* enumerates them.
Increment(indents, key) ==
    IF \E j \in 1..Len(indents) : indents[j].key = key
    THEN [j \in 1..Len(indents) |->
            IF indents[j].key = key
            THEN [key |-> key, used |-> indents[j].used + 1]
            ELSE indents[j]]
    ELSE Append(indents, [key |-> key, used |-> 1])

\* The loop variables before the first line.
ScanStart ==
    [indents |-> <<>>, lfCount |-> 0, crCount |-> 0, hasFinalEol |-> FALSE,
     previousIndent |-> <<>>, key |-> <<>>, nextEol |-> 0]

\* The whole leading run taken as the key.
DeltaKey_FullIndent(line, lineIndent, previousIndent) == lineIndent

\* key = line.slice(0, Math.abs(lineIndent.length - previousIndent.length))
DeltaKey(line, lineIndent, previousIndent) ==
    Slice(line, 0, Abs(Len(lineIndent) - Len(previousIndent)))

\* "Get the indent string and store its usage count" for one line.
CountIndent(st, line) ==
    IF line = <<>> THEN st
    ELSE
      LET lineIndent == LineIndentOf(line)
      IN  IF lineIndent = <<>> THEN [st EXCEPT !.previousIndent = <<>>]
          ELSE IF lineIndent = st.previousIndent
          THEN \* Same indentation, reusing key from previous iteration.
               [st EXCEPT !.indents = Increment(st.indents, st.key),
                          !.previousIndent = lineIndent]
          ELSE IF CharAt(lineIndent, 0) = CharAt(st.previousIndent, 0)
          THEN \* Same indentation type, different length.
               LET key == DeltaKey(line, lineIndent, st.previousIndent)
               IN  [st EXCEPT !.indents = Increment(st.indents, key),
                              !.key = key,
                              !.previousIndent = lineIndent]
          ELSE \* Different indentation.
               [st EXCEPT !.indents = Increment(st.indents, lineIndent),
                          !.key = lineIndent,
                          !.previousIndent = lineIndent]

\* text.charCodeAt(nextEol - 1) === 13
IsCRLF(text, nextEol) == CharAt(text, nextEol - 1) = CR

\* if (nextEol === end) hasFinalEol = true
\* The final end of line looked for one character too far.
IsFinalEol_PastEnd(nextEol, end) == nextEol = end + 1

IsFinalEol(nextEol, end) == nextEol = end

\* One iteration of the loop over the lines, from position pos.
ScanLine(text, pos, st) ==
    LET end == Len(text) - 1
        found == IndexOf(text, LF, pos)
    IN  IF found >= 0
        THEN LET crlf == IsCRLF(text, found)
                 line == Slice(text, pos, IF crlf THEN found - 1 ELSE found)
                 counted == [st EXCEPT
                               !.crCount = IF crlf THEN @ + 1 ELSE @,
                               !.lfCount = IF crlf THEN @ ELSE @ + 1,
                               !.hasFinalEol = @ \/ IsFinalEol(found, end),
                               !.nextEol = found]
             IN  CountIndent(counted, line)
        ELSE CountIndent([st EXCEPT !.nextEol = end], Slice(text, pos, Len(text)))

\* for (pos = 0; pos <= end; pos = nextEol + 1)
RECURSIVE ScanText(_, _, _)
ScanText(text, pos, st) ==
    IF pos <= Len(text) - 1
    THEN LET next == ScanLine(text, pos, st)
         IN  ScanText(text, next.nextEol + 1, next)
    ELSE st

\* The last key with the highest count taken.
RECURSIVE MostUsed_LastWins(_, _, _)
MostUsed_LastWins(indents, indentString, max) ==
    IF indents = <<>> THEN indentString
    ELSE IF Head(indents).used >= max
         THEN MostUsed_LastWins(Tail(indents), JStr(Head(indents).key), Head(indents).used)
         ELSE MostUsed_LastWins(Tail(indents), indentString, max)

\* "Find the most frequently used": the first key with the highest count.
RECURSIVE MostUsed(_, _, _)
MostUsed(indents, indentString, max) ==
    IF indents = <<>> THEN indentString
    ELSE IF Head(indents).used > max
         THEN MostUsed(Tail(indents), JStr(Head(indents).key), Head(indents).used)
         ELSE MostUsed(Tail(indents), indentString, max)

\* indents after the scan of a text: the keys in the order they were
\* recorded, each with its count.
Table(text) == ScanText(text, 0, ScanStart).indents

NoPath == "undefined"

\* A tie taken for CRLF.
UseCRLF_OrEqual(crCount, lfCount) == crCount >= lfCount

\* useCRLF: crCount > lfCount
UseCRLF(crCount, lfCount) == crCount > lfCount

\* The Metadata parse() stores for a text that decodes to an object.
DetectMetadata(text) ==
    LET st == ScanText(text, 0, ScanStart)
    IN  [indentString |-> MostUsed(st.indents, Undefined, 0),
         useCRLF      |-> UseCRLF(st.crCount, st.lfCount),
         hasFinalEol  |-> st.hasFinalEol,
         filepath     |-> NoPath]

----------------------------------------------------------------------------
(* MagicJSON.stringify on a value and the Metadata found for it *)

NoMeta == [none |-> TRUE]

\* this.#refsMap.get(value) ?? { indentString: undefined, useCRLF: false,
\*                               hasFinalEol: false }
DefaultMetadata ==
    [indentString |-> Undefined, useCRLF |-> FALSE, hasFinalEol |-> FALSE,
     filepath |-> NoPath]

MetaOrDefault(meta) == IF meta = NoMeta THEN DefaultMetadata ELSE meta

\* The detected indentation taken before the space argument.
SpaceOr_DetectedFirst(space, indentString) ==
    IF indentString.type \in {"undefined", "null"} THEN space ELSE indentString

\* space ?? indentString
SpaceOr(space, indentString) ==
    IF space.type \in {"undefined", "null"} THEN indentString ELSE space

\* The line endings replaced before the final end of line is added.
Update_ReplaceFirst(text, hasFinalEol, useCRLF) ==
    LET replaced == IF useCRLF THEN ReplaceAllLF(text) ELSE text
    IN  IF hasFinalEol THEN replaced \o <<LF>> ELSE replaced

\* if (hasFinalEol) text += '\n'; if (useCRLF) text = text.replaceAll(...)
Update(text, hasFinalEol, useCRLF) ==
    LET withEol == IF hasFinalEol THEN text \o <<LF>> ELSE text
    IN  IF useCRLF THEN ReplaceAllLF(withEol) ELSE withEol

StringifyWith(value, meta, replacer, space) ==
    LET m == MetaOrDefault(meta)
    IN  Update(JSONstringify(value, replacer, SpaceOr(space, m.indentString)),
               m.hasFinalEol, m.useCRLF)

----------------------------------------------------------------------------
(* Bounds and inputs *)

MaxObjs    == 2     \* objects the program holds at once
MaxTasks   == 2     \* fromFile / write calls in flight at once
MaxCalls   == 3     \* calls and edits in one run
MaxMembers == 3     \* members an edit may grow an object or array to

ObjIds  == 1..MaxObjs
TaskIds == 1..MaxTasks

\* The paths a caller passes, and path.resolve() of each in the working
\* directory /w.
Paths == {"./x.json", "/w/x.json", "/w/y.json"}

Resolve(p) == IF p = "./x.json" THEN "/w/x.json" ELSE p

Locations == {Resolve(p) : p \in Paths}

NoFile == [exists |-> FALSE, text |-> <<>>]
File(text) == [exists |-> TRUE, text |-> text]

\* What a file that held the text old holds after the text is written at its
\* start: the text, then what old had beyond the length of the text.
WrittenOver(old, text) == text \o SubSeq(old, Len(text) + 1, Len(old))

\* What one read of an open file gives, from the position pos, the file
\* holding the text now: with the size that fstat() gave, at most that many
\* characters; with the size 0, all there is beyond the position.
ReadChunk(now, pos, size) ==
    IF size > 0
    THEN SubSeq(now, pos + 1, IF size < Len(now) THEN size ELSE Len(now))
    ELSE SubSeq(now, pos + 1, Len(now))

\* One "key": value member line, and the texts built from such lines.
MemberText(k, n) == <<QUOTE, k, QUOTE, ":", SP>> \o NumText(n)

\* '{\n  "a": 1,\n  "b": 2\n}\n': 2 spaces, LF, final end of line.
DocSpaces ==
    <<"{", LF, SP, SP>> \o MemberText("a", 1) \o <<",", LF, SP, SP>>
    \o MemberText("b", 2) \o <<LF, "}", LF>>

\* '{\r\n\t"a": {\r\n\t\t"b": 2\r\n\t}\r\n}\r\n': tabs, CRLF, final end of line.
DocTabsCRLF ==
    <<"{", CR, LF, TAB, QUOTE, "a", QUOTE, ":", SP, "{", CR, LF, TAB, TAB>>
    \o MemberText("b", 2) \o <<CR, LF, TAB, "}", CR, LF, "}", CR, LF>>

\* '[1,[2]]': an array on one line, an array in it.
DocArray == <<"[", "1", ",", "[", "2", "]", "]">>

\* '7' and 'null': texts that decode to a primitive value.
DocNumber == <<"7">>
DocNull == LiteralText("null")

\* '{"a":': malformed.
DocBroken == <<"{", QUOTE, "a", QUOTE, ":">>

Documents == {DocSpaces, DocTabsCRLF, DocArray, DocNumber, DocNull, DocBroken}

\* The texts of the layout family: the five lines
\*     {            "a": {            "b": 2            }            }
\* the three inner ones after any leading whitespace of Indents, the first
\* two line breaks of one style (LF or CRLF) and the last two of one style,
\* with or without a final end of line of the latter style.
MaxSpaces == 3      \* longest leading run of spaces
MaxTabs   == 2      \* longest leading run of tabs

Indents ==
    {Repeat(<<SP>>, n) : n \in 0..MaxSpaces}
    \cup {Repeat(<<TAB>>, n) : n \in 1..MaxTabs}
    \cup {<<SP, TAB>>}

Eols == {<<LF>>, <<CR, LF>>}

Layouts ==
    {<<"{">> \o e[1] \o i[1] \o <<QUOTE, "a", QUOTE, ":", SP, "{">>
     \o e[1] \o i[2] \o MemberText("b", 2)
     \o e[2] \o i[3] \o <<"}">>
     \o e[2] \o <<"}">> \o (IF f THEN e[2] ELSE <<>>) :
        i \in [1..3 -> Indents], e \in [1..2 -> Eols], f \in BOOLEAN}

\* The same five lines, the three inner ones indented by 0 to MaxDepth
\* copies of one unit, with LF line endings.
MaxDepth == 3       \* deepest indentation, in units

Units ==
    {Repeat(<<SP>>, n) : n \in 1..MaxSpaces} \cup {Repeat(<<TAB>>, n) : n \in 1..MaxTabs}

NestedLayouts ==
    {<<"{", LF>> \o Repeat(u, d[1]) \o <<QUOTE, "a", QUOTE, ":", SP, "{", LF>>
     \o Repeat(u, d[2]) \o MemberText("b", 2) \o <<LF>>
     \o Repeat(u, d[3]) \o <<"}", LF, "}">> :
        u \in Units, d \in [1..3 -> 0..MaxDepth]}

\* Texts on one line and texts with an empty line.
OneLiners ==
    {<<"{", QUOTE, "a", QUOTE, ":", "{", QUOTE, "b", QUOTE, ":", "2", "}", "}">>,
     <<"{", QUOTE, "a", QUOTE, ":", "{", QUOTE, "b", QUOTE, ":", "2", "}", "}", LF>>,
     <<"{", SP, QUOTE, "a", QUOTE, ":", SP, "1", SP, "}">>,
     <<"[", "]", CR, LF>>,
     <<"{", LF, LF, SP, SP>> \o MemberText("a", 1) \o <<LF, "}", LF, LF>>}

\* The space arguments a caller passes to stringify().
Spaces == {Undefined, JNum(4)}

\* The objects a caller builds itself, never decoded.
PlainValues == {JObj(<<Member(<<"a">>, JArr(<<JNum(1)>>))>>)}

----------------------------------------------------------------------------
(* State *)

VARIABLES
    doc,        \* the caller's JSON text
    heap,       \* the content of each object the program holds, by identity
    refsMap,    \* MagicJSON.#refsMap: the Metadata of each tracked object
    frozen,     \* the objects whose Metadata getMetadata() has frozen
    files,      \* the text of the file at each location
    tasks,      \* the fromFile() and write() calls in flight
    last,       \* the latest call that returned or threw, and its outcome
    calls,      \* the number of calls and edits so far
    src,        \* history: the call and the text each decoded object came from
    pristine    \* history: the decoded objects never edited since

vars == <<doc, heap, refsMap, frozen, files, tasks, last, calls, src, pristine>>

Free == Undefined

\* A value passed to the API: an object the program holds, an object or
\* array nested in one, or the primitive the latest call returned.
ObjRef(id)    == [kind |-> "object", id |-> id, v |-> Undefined]
NestedRef(id) == [kind |-> "nested", id |-> id, v |-> Undefined]
PrimRef(v)    == [kind |-> "primitive", id |-> 0, v |-> v]

\* The first object or array held as a member or element of v.
Children(v) ==
    IF v.type = "object" THEN [j \in 1..Len(v.members) |-> v.members[j].value]
    ELSE IF v.type = "array" THEN v.elems
    ELSE <<>>

HasNested(v) == \E j \in 1..Len(Children(v)) : IsObject(Children(v)[j])

FirstNested(v) ==
    Children(v)[CHOOSE j \in 1..Len(Children(v)) :
                  /\ IsObject(Children(v)[j])
                  /\ \A h \in 1..(j - 1) : ~IsObject(Children(v)[h])]

Refs ==
    {ObjRef(id) : id \in {i \in ObjIds : heap[i] # Free}}
    \cup {NestedRef(id) : id \in {i \in ObjIds : heap[i] # Free /\ HasNested(heap[i])}}
    \cup {PrimRef(v) : v \in {w \in {last.value} : w.type \notin {"undefined", "array", "object"}}}

RefValue(ref) ==
    CASE ref.kind = "object" -> heap[ref.id]
      [] ref.kind = "nested" -> FirstNested(heap[ref.id])
      [] OTHER -> ref.v

NoRef == PrimRef(Undefined)

----------------------------------------------------------------------------
(* The association table *)

\* The table looked up by the object that holds the value.
RefsMapGet_Owner(ref) == IF ref.kind = "primitive" THEN NoMeta ELSE refsMap[ref.id]

\* this.#refsMap.get(value): a WeakMap is keyed by the identity of an object,
\* so a nested object or a primitive has no entry.
RefsMapGet(ref) == IF ref.kind = "object" THEN refsMap[ref.id] ELSE NoMeta

\* this.#refsMap.has(value)
RefsMapHas(ref) == RefsMapGet(ref) # NoMeta

\* MagicJSON.stringify(value, replacer, space)
StringifyText(ref, replacer, space) ==
    StringifyWith(RefValue(ref), RefsMapGet(ref), replacer, space)

\* Arrays returned without an entry.
ParseResult_ObjectsOnly(text) ==
    LET json == JSONparse(text)
    IN  IF ~json.ok
        THEN [ok |-> FALSE, v |-> Undefined, tracked |-> FALSE, meta |-> NoMeta]
        ELSE IF json.v.type # "object"
        THEN [ok |-> TRUE, v |-> json.v, tracked |-> FALSE, meta |-> NoMeta]
        ELSE [ok |-> TRUE, v |-> json.v, tracked |-> TRUE,
              meta |-> DetectMetadata(text)]

\* The Metadata stored on the value itself, as a member or an element.
ParseResult_OnValue(text) ==
    LET json == JSONparse(text)
    IN  IF ~json.ok
        THEN [ok |-> FALSE, v |-> Undefined, tracked |-> FALSE, meta |-> NoMeta]
        ELSE IF ~IsObject(json.v)
        THEN [ok |-> TRUE, v |-> json.v, tracked |-> FALSE, meta |-> NoMeta]
        ELSE [ok |-> TRUE,
              v |-> IF json.v.type = "object"
                    THEN JObj(Append(json.v.members, Member(<<"m">>, JNull)))
                    ELSE JArr(Append(json.v.elems, JNull)),
              tracked |-> TRUE,
              meta |-> DetectMetadata(text)]

\* What parse(text) does: JSON.parse throws (ok = FALSE), or returns a value
\* that is stored with its Metadata (tracked) or returned as it is.
ParseResult(text) ==
    LET json == JSONparse(text)
    IN  IF ~json.ok
        THEN [ok |-> FALSE, v |-> Undefined, tracked |-> FALSE, meta |-> NoMeta]
        ELSE IF ~IsObject(json.v)
        THEN [ok |-> TRUE, v |-> json.v, tracked |-> FALSE, meta |-> NoMeta]
        ELSE [ok |-> TRUE, v |-> json.v, tracked |-> TRUE,
              meta |-> DetectMetadata(text)]

\* filepath ??= this.#refsMap.get(value)?.filepath
WritePath(ref, arg) ==
    IF arg # NoPath THEN arg
    ELSE IF RefsMapGet(ref) = NoMeta THEN NoPath
    ELSE RefsMapGet(ref).filepath

\* The path written to recorded as the path of the value.
WriteRecords_Path(ref, filepath) ==
    IF RefsMapHas(ref) THEN [refsMap EXCEPT ![ref.id].filepath = filepath]
    ELSE refsMap

\* The table after write(): filepath ??= ... assigns the parameter of the
\* call, nothing in the Metadata.
WriteRecords(ref, filepath) == refsMap

\* The check of the path left out.
NoLocation_Never(filepath) == FALSE

\* typeof filepath !== 'string'
NoLocation(filepath) == filepath = NoPath

\* meta.filepath = filepath
SetFilepath(meta, filepath) == [meta EXCEPT !.filepath = filepath]

----------------------------------------------------------------------------
(* Calls *)

Idle ==
    [op |-> "idle", pc |-> "idle", ref |-> NoRef, arg |-> NoPath,
     filepath |-> NoPath, text |-> <<>>, size |-> 0]

NoCall ==
    [op |-> "none", ok |-> TRUE, ref |-> NoRef, arg |-> NoPath,
     filepath |-> NoPath, replacer |-> "none", space |-> Undefined,
     id |-> 0, value |-> Undefined, text |-> <<>>, out |-> <<>>,
     flag |-> FALSE, meta |-> NoMeta]

FreeIds == {i \in ObjIds : heap[i] = Free}
NewId == CHOOSE i \in FreeIds : \A j \in FreeIds : i <= j

IdleTasks == {k \in TaskIds : tasks[k].op = "idle"}
NewTask == CHOOSE k \in IdleTasks : \A j \in IdleTasks : k <= j

NotDecoded == [exists |-> FALSE, op |-> "none", text |-> <<>>]
DecodedBy(op, text) == [exists |-> TRUE, op |-> op, text |-> text]

\* The state before the first call, the caller holding the text d, which is
\* also the text of the file x.json.
Start(d) ==
    /\ doc = d
    /\ heap = [i \in ObjIds |-> Free]
    /\ refsMap = [i \in ObjIds |-> NoMeta]
    /\ frozen = {}
    /\ files = [l \in Locations |-> IF l = "/w/x.json" THEN File(doc) ELSE NoFile]
    /\ tasks = [k \in TaskIds |-> Idle]
    /\ last = NoCall
    /\ calls = 0
    /\ src = [i \in ObjIds |-> NotDecoded]
    /\ pristine = {}

Init == \E d \in Documents : Start(d)

\* The state after parse(text) returned or threw; filepath is the path
\* fromFile() then records on the Metadata, NoPath for a plain parse().  An
\* object or array returned is a new object of the program.
Decoded(op, text, filepath) ==
    LET r == ParseResult(text)
    IN  IF r.ok /\ IsObject(r.v)
        THEN /\ FreeIds # {}
             /\ heap' = [heap EXCEPT ![NewId] = r.v]
             /\ refsMap' = [refsMap EXCEPT ![NewId] =
                              IF r.tracked /\ filepath # NoPath
                              THEN SetFilepath(r.meta, filepath)
                              ELSE r.meta]
             /\ src' = [src EXCEPT ![NewId] = DecodedBy(op, text)]
             /\ pristine' = pristine \cup {NewId}
             /\ last' = [NoCall EXCEPT !.op = op, !.text = text, !.id = NewId,
                                       !.arg = filepath, !.value = r.v]
        ELSE /\ last' = [NoCall EXCEPT !.op = op, !.text = text, !.ok = r.ok,
                                       !.arg = filepath, !.value = r.v]
             /\ UNCHANGED <<heap, refsMap, src, pristine>>

\* MagicJSON.parse(text), on the caller's text or on the text the latest
\* stringify() returned.
parse ==
    /\ calls < MaxCalls
    /\ \E text \in {doc} \cup (IF last.op = "stringify" THEN {last.out} ELSE {}) :
          Decoded("parse", text, NoPath)
    /\ calls' = calls + 1
    /\ UNCHANGED <<doc, frozen, files, tasks>>

\* The caller builds an object of its own.
create ==
    /\ calls < MaxCalls
    /\ FreeIds # {}
    /\ \E v \in PlainValues :
          /\ heap' = [heap EXCEPT ![NewId] = v]
          /\ last' = [NoCall EXCEPT !.op = "create", !.id = NewId, !.value = v]
    /\ calls' = calls + 1
    /\ UNCHANGED <<doc, refsMap, frozen, files, tasks, src, pristine>>

\* The content of an object after an edit: its last member or element
\* removed, or a member "c" (an element) set to 3.
Edits == {"delete", "set"}

Edited(v, edit) ==
    IF v.type = "object"
    THEN IF edit = "delete"
         THEN JObj(SubSeq(v.members, 1, Len(v.members) - 1))
         ELSE JObj(ObjSet(v.members, <<"c">>, JNum(3)))
    ELSE IF edit = "delete"
         THEN JArr(SubSeq(v.elems, 1, Len(v.elems) - 1))
         ELSE JArr(Append(v.elems, JNum(3)))

\* The caller edits an object it holds.
mutate ==
    /\ calls < MaxCalls
    /\ \E id \in ObjIds, edit \in Edits :
          /\ heap[id] # Free
          /\ Len(Children(heap[id])) > (IF edit = "delete" THEN 0 ELSE -1)
          /\ Len(Children(Edited(heap[id], edit))) <= MaxMembers
          /\ Edited(heap[id], edit) # heap[id]
          /\ heap' = [heap EXCEPT ![id] = Edited(heap[id], edit)]
          /\ pristine' = pristine \ {id}
          /\ last' = [NoCall EXCEPT !.op = "mutate", !.id = id]
    /\ calls' = calls + 1
    /\ UNCHANGED <<doc, refsMap, frozen, files, tasks, src>>

Stringified(ref, replacer, space) ==
    last' = [NoCall EXCEPT !.op = "stringify", !.ref = ref,
                           !.replacer = replacer, !.space = space,
                           !.out = StringifyText(ref, replacer, space)]

\* MagicJSON.stringify(value, replacer, space)
stringify ==
    /\ calls < MaxCalls
    /\ calls' = calls + 1
    /\ \E ref \in Refs, replacer \in Replacers, space \in Spaces :
          Stringified(ref, replacer, space)
    /\ UNCHANGED <<doc, heap, refsMap, frozen, files, tasks, src, pristine>>

\* MagicJSON.isMagic(value)
isMagic ==
    /\ calls < MaxCalls
    /\ calls' = calls + 1
    /\ \E ref \in Refs :
          last' = [NoCall EXCEPT !.op = "isMagic", !.ref = ref,
                                 !.flag = RefsMapHas(ref)]
    /\ UNCHANGED <<doc, heap, refsMap, frozen, files, tasks, src, pristine>>

\* MagicJSON.getMetadata(value): the Metadata, frozen, or undefined.
getMetadata ==
    /\ calls < MaxCalls
    /\ calls' = calls + 1
    /\ \E ref \in Refs :
          /\ last' = [NoCall EXCEPT !.op = "getMetadata", !.ref = ref,
                                    !.meta = RefsMapGet(ref)]
          /\ frozen' = IF RefsMapHas(ref) THEN frozen \cup {ref.id} ELSE frozen
    /\ UNCHANGED <<doc, heap, refsMap, files, tasks, src, pristine>>

\* MagicJSON.fromFile(filepath), up to its await: readFile() is started.
fromFile ==
    /\ calls < MaxCalls
    /\ IdleTasks # {}
    /\ \E filepath \in Paths :
          tasks' = [tasks EXCEPT ![NewTask] =
                      [Idle EXCEPT !.op = "fromFile", !.pc = "open",
                                   !.arg = filepath, !.filepath = filepath]]
    /\ calls' = calls + 1
    /\ UNCHANGED <<doc, heap, refsMap, frozen, files, last, src, pristine>>

\* readFile() opens the file for reading, or fails when there is none:
\* fromFile() is then rejected.
readFileOpen ==
    \E k \in TaskIds :
      /\ tasks[k].op = "fromFile" /\ tasks[k].pc = "open"
      /\ IF files[Resolve(tasks[k].filepath)].exists
         THEN /\ tasks' = [tasks EXCEPT ![k].pc = "fstat"]
              /\ UNCHANGED last
         ELSE /\ tasks' = [tasks EXCEPT ![k] = Idle]
              /\ last' = [NoCall EXCEPT !.op = "fromFile", !.ok = FALSE,
                                        !.arg = tasks[k].arg]
      /\ UNCHANGED <<doc, heap, refsMap, frozen, files, calls, src, pristine>>

\* readFile() takes the size of the open file, as the file is by then.
readFileStat ==
    \E k \in TaskIds :
      /\ tasks[k].pc = "fstat"
      /\ tasks' = [tasks EXCEPT ![k].pc = "readFile",
                                ![k].size = Len(files[Resolve(tasks[k].filepath)].text)]
      /\ UNCHANGED <<doc, heap, refsMap, frozen, files, last, calls, src, pristine>>

\* readFile() reads the open file, as the file is by then: with a size, once
\* and at most that many characters; with the size 0, on from where it is
\* until a read gives nothing.
readFile ==
    \E k \in TaskIds :
      /\ tasks[k].pc = "readFile"
      /\ LET chunk == ReadChunk(files[Resolve(tasks[k].filepath)].text,
                                Len(tasks[k].text), tasks[k].size)
         IN  tasks' = [tasks EXCEPT ![k].text = tasks[k].text \o chunk,
                                    ![k].pc = IF tasks[k].size > 0 \/ chunk = <<>>
                                              THEN "resume" ELSE "readFile"]
      /\ UNCHANGED <<doc, heap, refsMap, frozen, files, last, calls, src, pristine>>

\* readFile() closes the file; fromFile() after its await: parse the text,
\* record the path, return.
fromFileResume ==
    \E k \in TaskIds :
      /\ tasks[k].pc = "resume"
      /\ Decoded("fromFile", tasks[k].text, tasks[k].filepath)
      /\ tasks' = [tasks EXCEPT ![k] = Idle]
      /\ UNCHANGED <<doc, frozen, files, calls>>

\* MagicJSON.write(value, filepath?), up to its await: the TypeError when
\* there is no path; else the text is made and writeFile() is started.
write ==
    /\ calls < MaxCalls
    /\ IdleTasks # {}
    /\ \E ref \in Refs, arg \in Paths \cup {NoPath} :
          IF NoLocation(WritePath(ref, arg))
          THEN /\ last' = [NoCall EXCEPT !.op = "write", !.ok = FALSE,
                                         !.ref = ref, !.arg = arg]
               /\ UNCHANGED <<tasks, refsMap>>
          ELSE /\ refsMap' = WriteRecords(ref, WritePath(ref, arg))
               /\ tasks' = [tasks EXCEPT ![NewTask] =
                              [Idle EXCEPT !.op = "write", !.pc = "open",
                                           !.ref = ref, !.arg = arg,
                                           !.filepath = WritePath(ref, arg),
                                           !.text = StringifyText(ref, "none", Undefined)]]
               /\ UNCHANGED last
    /\ calls' = calls + 1
    /\ UNCHANGED <<doc, heap, frozen, files, src, pristine>>

\* writeFile() opens the file for writing: the file is made, or emptied when
\* it exists; the text is not written yet, and other calls run in between.
writeFileOpen ==
    \E k \in TaskIds :
      /\ tasks[k].op = "write" /\ tasks[k].pc = "open"
      /\ files' = [files EXCEPT ![Resolve(tasks[k].filepath)] = File(<<>>)]
      /\ tasks' = [tasks EXCEPT ![k].pc = "writeFile"]
      /\ UNCHANGED <<doc, heap, refsMap, frozen, last, calls, src, pristine>>

\* writeFile() writes the text at the start of the file it opened, over what
\* the file holds by then; the call has not returned yet.
writeFile ==
    \E k \in TaskIds :
      /\ tasks[k].pc = "writeFile"
      /\ files' = [files EXCEPT ![Resolve(tasks[k].filepath)] =
                     File(WrittenOver(files[Resolve(tasks[k].filepath)].text,
                                      tasks[k].text))]
      /\ tasks' = [tasks EXCEPT ![k].pc = "return"]
      /\ UNCHANGED <<doc, heap, refsMap, frozen, last, calls, src, pristine>>

\* writeFile() closes the file; write() after its await returns.
writeResume ==
    \E k \in TaskIds :
      /\ tasks[k].pc = "return"
      /\ last' = [NoCall EXCEPT !.op = "write", !.ref = tasks[k].ref,
                                !.arg = tasks[k].arg,
                                !.filepath = tasks[k].filepath,
                                !.out = tasks[k].text]
      /\ tasks' = [tasks EXCEPT ![k] = Idle]
      /\ UNCHANGED <<doc, heap, refsMap, frozen, files, calls, src, pristine>>

Next ==
    \/ parse
    \/ create
    \/ mutate
    \/ stringify
    \/ isMagic
    \/ getMetadata
    \/ fromFile
    \/ readFileOpen
    \/ readFileStat
    \/ readFile
    \/ fromFileResume
    \/ write
    \/ writeFileOpen
    \/ writeFile
    \/ writeResume

Spec == Init /\ [][Next]_vars

----------------------------------------------------------------------------
(* parse() and stringify() alone, on every text of the layout family *)

InitText == \E d \in Layouts \cup OneLiners : Start(d)

\* MagicJSON.stringify(value)
stringifyValue ==
    /\ \E id \in ObjIds \ FreeIds : Stringified(ObjRef(id), "none", Undefined)
    /\ UNCHANGED <<doc, heap, refsMap, frozen, files, tasks, calls, src, pristine>>

NextText ==
    \/ parse
    \/ stringifyValue

SpecText == InitText /\ [][NextText]_vars

----------------------------------------------------------------------------
(* parse() alone, on every text of the layout families *)

InitScan == \E d \in Layouts \cup NestedLayouts \cup OneLiners : Start(d)

NextScan == parse

SpecScan == InitScan /\ [][NextScan]_vars

----------------------------------------------------------------------------
(* What the claims speak of *)

\* The lines of a text, split at its linefeeds.
RECURSIVE SplitLF(_)
SplitLF(text) ==
    LET p == IndexOf(text, LF, 0)
    IN  IF p < 0 THEN <<text>>
        ELSE <<Slice(text, 0, p)>> \o SplitLF(Slice(text, p + 1, Len(text)))

\* A line without the carriage return that ends it.
StripCR(line) ==
    IF line # <<>> /\ line[Len(line)] = CR THEN Slice(line, 0, Len(line) - 1)
    ELSE line

\* A text with each of its line endings, CRLF or LF, written as LF.
UnixText(text) ==
    JoinTexts([j \in 1..Len(SplitLF(text)) |-> StripCR(SplitLF(text)[j])], <<LF>>)

\* The linefeeds of a text that a carriage return precedes, and the others.
CRLFs(text) == {p \in 2..Len(text) : text[p] = LF /\ text[p - 1] = CR}
BareLFs(text) == {p \in 1..Len(text) : text[p] = LF /\ (p = 1 \/ text[p - 1] # CR)}

SingleStyle(text) == CRLFs(text) = {} \/ BareLFs(text) = {}
CRLFMajority(text) == Cardinality(CRLFs(text)) > Cardinality(BareLFs(text))

\* The indentation units of the layouts: none, spaces, tabs.
LayoutUnits ==
    {Undefined}
    \cup {JStr(Repeat(<<SP>>, n)) : n \in 1..MaxSpaces}
    \cup {JStr(Repeat(<<TAB>>, n)) : n \in 1..MaxTabs}

\* The text is laid out, line endings apart, as the generic encoder lays its
\* value out with one unit of indentation, with at most one final line
\* ending: every line is indented by its depth times the unit.
ConsistentIndentation(text) ==
    /\ JSONparse(text).ok
    /\ \E unit \in LayoutUnits, final \in BOOLEAN :
          UnixText(text) = JSONstringify(JSONparse(text).v, "none", unit)
                           \o (IF final THEN <<LF>> ELSE <<>>)

\* An encoded text with the line ending eol between its lines, and after the
\* last one when final.
Replayed(encoded, crlf, final) ==
    LET eol == IF crlf THEN <<CR, LF>> ELSE <<LF>>
    IN  JoinTexts(SplitLF(encoded), eol) \o (IF final THEN eol ELSE <<>>)

\* The value is an object that a parse() or a fromFile() returned.
IsDecodedRoot(ref) == ref.kind = "object" /\ src[ref.id].exists

\* The latest call is stringify(value) of the object id, with no replacer
\* and no space.
StringifiedPlainly(id) ==
    /\ last.op = "stringify"
    /\ last.ref = ObjRef(id)
    /\ last.replacer = "none"
    /\ last.space = Undefined

----------------------------------------------------------------------------
(* C1 *)

\* C1, as claimed: stringify(parse(t)) is t for every text t decoded to an
\* object or array whose indentation is consistent and whose line endings
\* are of one style or CRLF in their strict majority.
C1_RoundTripAsClaimed ==
    \A id \in pristine :
        (/\ StringifiedPlainly(id)
         /\ ConsistentIndentation(src[id].text)
         /\ (SingleStyle(src[id].text) \/ CRLFMajority(src[id].text)))
        => last.out = src[id].text

\* C1, amended: stringify(parse(t)) is t for every text t decoded to an
\* object or array that is laid out as the generic encoder lays its value
\* out with one indentation unit, with at most one final line ending, and
\* whose line endings are all LF or all CRLF.
C1_RoundTrip ==
    \A id \in pristine :
        (/\ StringifiedPlainly(id)
         /\ ConsistentIndentation(src[id].text)
         /\ SingleStyle(src[id].text))
        => last.out = src[id].text

\* An indented CRLF text with a final end of line came back unchanged.
C1_Witness ==
    \E id \in pristine :
        /\ StringifiedPlainly(id)
        /\ ConsistentIndentation(src[id].text)
        /\ CRLFs(src[id].text) # {} /\ BareLFs(src[id].text) = {}
        /\ refsMap[id].indentString # Undefined
        /\ refsMap[id].hasFinalEol
        /\ last.out = src[id].text

----------------------------------------------------------------------------
(* C2 *)

\* The text is what stringify() returns for an object as it was decoded.
IsOutput(text) ==
    \E i \in pristine : text = StringifyText(ObjRef(i), "none", Undefined)

\* C2: the text of one parse/stringify pass is accepted by parse(), and a
\* second pass returns it unchanged.
C2_Idempotent ==
    /\ (last.op = "parse" /\ IsOutput(last.text)) => last.ok
    /\ \A j \in pristine :
          (StringifiedPlainly(j) /\ IsOutput(src[j].text))
          => last.out = src[j].text

----------------------------------------------------------------------------
(* C3, C4, C5 *)

\* The latest call is stringify() of a tracked object.
StringifiedTracked(id) ==
    /\ last.op = "stringify"
    /\ last.ref = ObjRef(id)
    /\ src[id].exists

\* C3: stringify(v) of a tracked v, edited or not, with no space argument, is
\* the generic encoding of v's present content indented by the unit detected
\* in the text v was decoded from, every line ending in the detected style,
\* with a final line ending exactly when that text had one.
C3_FormattingReplay ==
    \A id \in ObjIds :
        (StringifiedTracked(id) /\ last.space = Undefined)
        => LET d == DetectMetadata(src[id].text)
           IN  last.out = Replayed(JSONstringify(heap[id], last.replacer, d.indentString),
                                   d.useCRLF, d.hasFinalEol)

\* An edited object, decoded from an indented CRLF text with a final end of
\* line, was encoded.
C3_Witness ==
    \E id \in ObjIds \ pristine :
        /\ StringifiedTracked(id) /\ last.space = Undefined
        /\ heap[id] # JSONparse(src[id].text).v
        /\ refsMap[id].indentString # Undefined
        /\ refsMap[id].useCRLF /\ refsMap[id].hasFinalEol
        /\ last.out # src[id].text

\* C4: stringify(v, replacer, space) of a tracked v with a space argument is
\* the generic encoding of v indented by that argument, not by the detected
\* unit, with the detected line endings and final line ending.
C4_SpaceOverride ==
    \A id \in ObjIds :
        (StringifiedTracked(id) /\ last.space # Undefined)
        => LET d == DetectMetadata(src[id].text)
           IN  last.out = Replayed(JSONstringify(heap[id], last.replacer, last.space),
                                   d.useCRLF, d.hasFinalEol)

\* An object decoded from a tab-indented CRLF text with a final end of line
\* was encoded with a space argument of 4.
C4_Witness ==
    \E id \in ObjIds :
        /\ StringifiedTracked(id) /\ last.space = JNum(4)
        /\ refsMap[id].indentString = JStr(<<TAB>>)
        /\ refsMap[id].useCRLF /\ refsMap[id].hasFinalEol
        /\ HasNested(heap[id])

\* C5: stringify(value, replacer, space) of a value that is not tracked (a
\* primitive, an object the caller built, an object nested in a tracked one)
\* is JSON.stringify(value, replacer, space): no indentation but the space
\* argument's, no final line ending, LF line endings.
C5_UntrackedDefault ==
    (last.op = "stringify" /\ ~IsDecodedRoot(last.ref))
    => last.out = JSONstringify(RefValue(last.ref), last.replacer, last.space)

\* An object nested in a tracked object, decoded from an indented CRLF text
\* with a final end of line, was encoded.
C5_Witness ==
    /\ last.op = "stringify"
    /\ last.ref.kind = "nested"
    /\ src[last.ref.id].exists
    /\ refsMap[last.ref.id].indentString # Undefined
    /\ refsMap[last.ref.id].useCRLF /\ refsMap[last.ref.id].hasFinalEol
    /\ last.space = Undefined

----------------------------------------------------------------------------
(* C6 *)

\* C6: the object fromFile(p) returns carries the resolved, absolute form of
\* p as its source path.
C6_ResolvedPath ==
    (last.op = "fromFile" /\ last.ok /\ last.id # 0)
    => refsMap[last.id].filepath = Resolve(last.arg)

----------------------------------------------------------------------------
(* C7, C8 *)

\* stringify(value), said without the program's operators.
EncodedText(ref) ==
    IF IsDecodedRoot(ref)
    THEN LET d == DetectMetadata(src[ref.id].text)
         IN  Replayed(JSONstringify(heap[ref.id], "none", d.indentString),
                      d.useCRLF, d.hasFinalEol)
    ELSE JSONstringify(RefValue(ref), "none", Undefined)

\* A write() call passes its check at this step, as task k.
WriteStarts(k) == tasks[k].op = "idle" /\ tasks'[k].op = "write"

\* The write() call of task k returns at this step, its writeFile() done.
WriteEnds(k) == tasks[k].op = "write" /\ tasks'[k].op = "idle"

\* C7: write(v, p) writes to p, also when v has another recorded source path;
\* write(v) writes to the source path fromFile() recorded for v; when the call
\* returns, the file at that location holds exactly stringify(v) as of the
\* call, and no other file has changed.
C7_WriteLocationStep ==
    \A k \in TaskIds :
        /\ WriteStarts(k)
           => /\ tasks'[k].text = EncodedText(tasks'[k].ref)
              /\ tasks'[k].arg # NoPath => tasks'[k].filepath = tasks'[k].arg
              /\ tasks'[k].arg = NoPath
                 => /\ IsDecodedRoot(tasks'[k].ref)
                    /\ src[tasks'[k].ref.id].op = "fromFile"
                    /\ tasks'[k].filepath = refsMap[tasks'[k].ref.id].filepath
                    /\ tasks'[k].filepath \in Paths
        /\ WriteEnds(k)
           => files' = [files EXCEPT ![Resolve(tasks[k].filepath)] = File(tasks[k].text)]

NoSourcePath(ref) == ~IsDecodedRoot(ref) \/ src[ref.id].op = "parse"

\* C8: write(v) with no path, for a v with no recorded source path, fails
\* before any I/O: no writeFile() is started for it, and the failing call
\* leaves the files, the table and the objects as they were.
C8_NoLocationStep ==
    /\ \A k \in TaskIds :
          WriteStarts(k) => ~(tasks'[k].arg = NoPath /\ NoSourcePath(tasks'[k].ref))
    /\ (last'.op = "write" /\ ~last'.ok /\ last' # last)
       => /\ last'.arg = NoPath /\ NoSourcePath(last'.ref)
          /\ UNCHANGED <<files, tasks, refsMap, heap>>

C8_NoLocation == [][C8_NoLocationStep]_vars

\* write(v) failed for a tracked v that parse() returned, no file written.
C8_Witness ==
    /\ last.op = "write" /\ ~last.ok
    /\ last.arg = NoPath
    /\ IsDecodedRoot(last.ref)
    /\ src[last.ref.id].op = "parse"
    /\ files["/w/y.json"] = NoFile
    /\ \A k \in TaskIds : tasks[k].op # "write"

----------------------------------------------------------------------------
(* C9, C10 *)

\* C9: the table has an entry for exactly the objects and arrays that a
\* successful parse() or fromFile() returned; a primitive, a nested object, a
\* failed decode have none; isMagic() and getMetadata() answer accordingly.
C9_TrackingInvariant ==
    /\ \A id \in ObjIds : (refsMap[id] # NoMeta) <=> src[id].exists
    /\ \A id \in ObjIds : src[id].exists => heap[id] # Free
    /\ (last.op \in {"parse", "fromFile"} /\ (~last.ok \/ ~IsObject(last.value)))
       => last.id = 0
    /\ (last.op \in {"parse", "fromFile"} /\ last.ok /\ IsObject(last.value))
       => refsMap[last.id] # NoMeta
    /\ last.op = "isMagic" => (last.flag <=> IsDecodedRoot(last.ref))
    /\ last.op = "getMetadata" => ((last.meta # NoMeta) <=> IsDecodedRoot(last.ref))

\* isMagic() answered false for an object nested in a tracked array.
C9_Witness ==
    /\ last.op = "isMagic" /\ ~last.flag
    /\ last.ref.kind = "nested"
    /\ refsMap[last.ref.id] # NoMeta
    /\ heap[last.ref.id].type = "array"

\* C10: a decoded object has the members that plain JSON.parse() gives it and
\* is encoded by JSON.stringify() as that value is; tracking, reading the
\* Metadata and encoding never change an object's content.
C10_PlainContent ==
    \A id \in pristine :
        /\ heap[id] = JSONparse(src[id].text).v
        /\ JSONstringify(heap[id], "none", Undefined)
           = JSONstringify(JSONparse(src[id].text).v, "none", Undefined)

C10_ContentStep ==
    \A id \in ObjIds :
        (heap[id] # Free /\ heap'[id] # heap[id]) => (last'.op = "mutate" /\ last'.id = id)

C10_NonIntrusive == []C10_PlainContent /\ [][C10_ContentStep]_vars

\* getMetadata() returned the Metadata of a decoded object with its members
\* as decoded.
C10_Witness ==
    /\ last.op = "getMetadata" /\ last.meta # NoMeta
    /\ last.ref.kind = "object"
    /\ last.ref.id \in pristine /\ last.ref.id \in frozen
    /\ heap[last.ref.id].type = "object"
    /\ Len(heap[last.ref.id].members) > 0

----------------------------------------------------------------------------
(* C11 *)

\* What parse() detects in a text, the path apart.
Detected(text) == [DetectMetadata(text) EXCEPT !.filepath = NoPath]

\* The fromFile() of task k returns at this step.
FromFileEnds(k) == tasks[k].pc = "resume" /\ tasks'[k].op = "idle"

\* Every tracked value has the descriptor of its own text, with the path of
\* its own fromFile() call, or none after parse().
C11_OwnDescriptor ==
    \A id \in ObjIds :
        src[id].exists
        => /\ [refsMap[id] EXCEPT !.filepath = NoPath] = Detected(src[id].text)
           /\ src[id].op = "fromFile" <=> refsMap[id].filepath \in Paths
           /\ src[id].op = "parse" <=> refsMap[id].filepath = NoPath

\* A step is a step of one call: it changes no other call in flight, the
\* descriptor of no value but the one it returns, the file of no location
\* but the one it writes; the file a write() call returns from holds the
\* text of that call.
C11_OwnStep ==
    /\ \A k, j \in TaskIds : (tasks'[k] # tasks[k] /\ tasks'[j] # tasks[j]) => k = j
    /\ \A id \in ObjIds :
          refsMap'[id] # refsMap[id]
          => heap[id] = Free /\ last'.op \in {"parse", "fromFile"} /\ last'.id = id
    /\ \A k \in TaskIds :
          FromFileEnds(k)
          => /\ last'.op = "fromFile" /\ last'.arg = tasks[k].arg
             /\ last'.id # 0
                => /\ heap[last'.id] = Free
                   /\ refsMap'[last'.id]
                      = [Detected(tasks[k].text) EXCEPT !.filepath = tasks[k].arg]
    /\ \A k \in TaskIds :
          WriteEnds(k)
          => \A l \in Locations :
                files'[l] = IF l = Resolve(tasks[k].filepath)
                            THEN File(tasks[k].text) ELSE files[l]
    /\ \A l \in Locations :
          files'[l] # files[l]
          => \E k \in TaskIds : /\ tasks[k].op = "write"
                                /\ tasks'[k] # tasks[k]
                                /\ l = Resolve(tasks[k].filepath)

----------------------------------------------------------------------------
(* C12 *)

\* C12: useCRLF is true exactly when the linefeeds that a carriage return
\* precedes are strictly more than the others; equal numbers, and no
\* linefeed at all, give false.
C12_LineEndings ==
    \A id \in ObjIds :
        src[id].exists
        => (refsMap[id].useCRLF
            <=> Cardinality(CRLFs(src[id].text)) > Cardinality(BareLFs(src[id].text)))

\* A text with both styles, CRLF in the majority, was detected as CRLF.
C12_Witness ==
    \E id \in ObjIds :
        /\ src[id].exists
        /\ BareLFs(src[id].text) # {}
        /\ Cardinality(CRLFs(src[id].text)) > Cardinality(BareLFs(src[id].text))
        /\ refsMap[id].useCRLF

----------------------------------------------------------------------------
(* C13 *)

\* The lines of a text, their line endings removed.
Lines(text) == [j \in 1..Len(SplitLF(text)) |-> StripCR(SplitLF(text)[j])]

\* No line of the text starts with a space or a tab.
NoLeadingWhitespace(text) ==
    \A j \in 1..Len(Lines(text)) :
        Lines(text)[j] = <<>> \/ Lines(text)[j][1] \notin {SP, TAB}

\* The unit starts with the character c.
UnitOf(unit, c) == unit # Undefined /\ unit.val # <<>> /\ unit.val[1] = c

\* The highest count among the candidates of the table that start with the
\* character c, 0 when there is none.
HighestCount(t, c) ==
    LET counts == {t[j].used : j \in {h \in 1..Len(t) : t[h].key[1] = c}}
    IN  IF counts = {} THEN 0
        ELSE CHOOSE n \in counts : \A m \in counts : m <= n

\* C13: indentString is the candidate with the highest count in the table,
\* the first recorded one among several with that count; it is absent when
\* no line of the text has leading whitespace.  So when the highest count of
\* the candidates that start with a space is above the highest count of
\* those that start with a tab, the unit starts with a space, and conversely.
C13_UnitSelection ==
    \A id \in ObjIds :
        src[id].exists
        => LET t == Table(src[id].text)
               unit == refsMap[id].indentString
           IN  /\ NoLeadingWhitespace(src[id].text) => unit = Undefined
               /\ t = <<>> => unit = Undefined
               /\ t # <<>>
                  => \E j \in 1..Len(t) :
                        /\ unit = JStr(t[j].key)
                        /\ \A h \in 1..Len(t) : t[h].used <= t[j].used
                        /\ \A h \in 1..(j - 1) : t[h].used < t[j].used
               /\ HighestCount(t, SP) > HighestCount(t, TAB) => UnitOf(unit, SP)
               /\ HighestCount(t, TAB) > HighestCount(t, SP) => UnitOf(unit, TAB)

\* Two candidates, a tab and a space, share the highest count: the one
\* recorded first was selected.
C13_Witness ==
    \E id \in ObjIds :
        /\ src[id].exists
        /\ Len(Table(src[id].text)) = 2
        /\ Table(src[id].text)[1].used = Table(src[id].text)[2].used
        /\ Table(src[id].text)[1].key = <<TAB>>
        /\ Table(src[id].text)[2].key = <<SP>>
        /\ refsMap[id].indentString = JStr(<<TAB>>)

\* The lines of a text that start with the character c: each gives one
\* indentation signal.
Signals(text, c) ==
    Cardinality({j \in 1..Len(Lines(text)) :
                    Lines(text)[j] # <<>> /\ Lines(text)[j][1] = c})

\* C13, as claimed: the selection above, so that a text with more
\* space-indented signals than tab-indented ones yields a space unit, and
\* conversely.
C13_AsClaimed ==
    /\ C13_UnitSelection
    /\ \A id \in ObjIds :
          src[id].exists
          => /\ Signals(src[id].text, SP) > Signals(src[id].text, TAB)
                => UnitOf(refsMap[id].indentString, SP)
             /\ Signals(src[id].text, TAB) > Signals(src[id].text, SP)
                => UnitOf(refsMap[id].indentString, TAB)

----------------------------------------------------------------------------
(* C14 *)

\* The lines of a text that are not empty.
FullLines(text) == SelectSeq(Lines(text), LAMBDA l : l # <<>>)

\* The length of the leading run of a line: its first character, a space or
\* a tab, repeated.
LeadingRun(line) ==
    IF line[1] \notin {SP, TAB} THEN 0
    ELSE CHOOSE n \in 1..Len(line) :
            /\ \A j \in 1..n : line[j] = line[1]
            /\ n = Len(line) \/ line[n + 1] # line[1]

\* The depth of a line indented by copies of the unit u: their number, and
\* -1 for a line indented otherwise.
Depth(line, u) ==
    IF LeadingRun(line) = 0 THEN 0
    ELSE IF line[1] = u[1] /\ LeadingRun(line) % Len(u) = 0
    THEN LeadingRun(line) \div Len(u)
    ELSE -1

\* The text is regularly nested by the unit u: every indented line has one
\* or more copies of u, the first indented line of the text and each one
\* after an unindented line has u alone, and an indented line after an
\* indented line is at most one u deeper or shallower.
RegularNesting(text, u) ==
    LET ls == FullLines(text)
    IN  /\ \E j \in 1..Len(ls) : Depth(ls[j], u) > 0
        /\ \A j \in 1..Len(ls) : Depth(ls[j], u) >= 0
        /\ \A j \in 1..Len(ls) :
              Depth(ls[j], u) > 0
              => IF j = 1 \/ Depth(ls[j - 1], u) = 0
                 THEN Depth(ls[j], u) = 1
                 ELSE Abs(Depth(ls[j], u) - Depth(ls[j - 1], u)) <= 1

\* C14: for a text regularly nested by one unit, of spaces or of tabs, the
\* detected indentString is that unit, not the prefix of a deeper line.
C14_RegularNesting ==
    \A id \in ObjIds, u \in Units :
        (src[id].exists /\ RegularNesting(src[id].text, u))
        => refsMap[id].indentString = JStr(u)

\* A text nested by a unit of two spaces, three levels deep, gave two spaces.
C14_Witness ==
    \E id \in ObjIds :
        /\ src[id].exists
        /\ RegularNesting(src[id].text, <<SP, SP>>)
        /\ \E j \in 1..Len(FullLines(src[id].text)) :
              Depth(FullLines(src[id].text)[j], <<SP, SP>>) = 3
        /\ refsMap[id].indentString = JStr(<<SP, SP>>)

----------------------------------------------------------------------------
(* C15 *)

\* A non-empty string of spaces only, or of tabs only.
PureIndentation(key) ==
    /\ key # <<>>
    /\ \E c \in {SP, TAB} : \A j \in 1..Len(key) : key[j] = c

\* C15: every candidate recorded in the table, and so indentString when it
\* is present, is a non-empty string of spaces only or of tabs only, also
\* after a line that is indented by fewer characters than it differs from
\* the line before.
C15_PureCandidates ==
    \A id \in ObjIds :
        src[id].exists
        => /\ \A j \in 1..Len(Table(src[id].text)) :
                 PureIndentation(Table(src[id].text)[j].key)
           /\ refsMap[id].indentString # Undefined
              => PureIndentation(refsMap[id].indentString.val)

----------------------------------------------------------------------------
(* C16 *)

\* The leading whitespace of the line starts with a space followed by a tab,
\* or with a tab followed by a space.
MixedLeading(line) ==
    /\ Len(line) >= 2
    /\ \/ line[1] = SP /\ line[2] = TAB
       \/ line[1] = TAB /\ line[2] = SP

\* A line without its leading spaces and tabs.
RECURSIVE Unindented(_)
Unindented(line) ==
    IF line # <<>> /\ line[1] \in {SP, TAB} THEN Unindented(Tail(line)) ELSE line

\* The text with the leading whitespace of its mixed lines removed: those
\* lines then give no signal.
Unmixed(text) ==
    JoinTexts([j \in 1..Len(SplitLF(text)) |->
                  IF MixedLeading(SplitLF(text)[j])
                  THEN Unindented(SplitLF(text)[j])
                  ELSE SplitLF(text)[j]],
              <<LF>>)

\* C16: a line whose leading whitespace mixes a space and a tab creates no
\* candidate and increments no count: the table of the text is the table of
\* the text without the leading whitespace of those lines.
C16_MixedNoSignal ==
    \A id \in ObjIds :
        src[id].exists => Table(src[id].text) = Table(Unmixed(src[id].text))

----------------------------------------------------------------------------
(* C17 *)

\* C17: the descriptor of a tracked value never changes after its decode:
\* not its indentString, useCRLF and hasFinalEol, and not its filepath,
\* which is set once, to the path given to fromFile(), before the value is
\* returned; write(v, p) leaves the recorded path, which a later write(v)
\* uses; no step modifies a descriptor that getMetadata() has frozen.
C17_StableStep ==
    /\ \A id \in ObjIds :
          /\ refsMap[id] # NoMeta => refsMap'[id] = refsMap[id]
          /\ id \in frozen => refsMap'[id] = refsMap[id]
          /\ (refsMap[id] = NoMeta /\ refsMap'[id] # NoMeta)
             => /\ [refsMap'[id] EXCEPT !.filepath = NoPath] = Detected(src'[id].text)
                /\ refsMap'[id].filepath
                   = (IF src'[id].op = "fromFile" THEN last'.arg ELSE NoPath)
    /\ \A k \in TaskIds :
          (WriteStarts(k) /\ IsDecodedRoot(tasks'[k].ref))
          => /\ refsMap'[tasks'[k].ref.id] = refsMap[tasks'[k].ref.id]
             /\ tasks'[k].arg = NoPath
                => tasks'[k].filepath = refsMap[tasks'[k].ref.id].filepath

C17_Stability == [][C17_StableStep]_vars

\* write(v, p) returned for a v that fromFile() loaded from another path and
\* whose descriptor getMetadata() had frozen: the recorded path is as loaded.
C17_Witness ==
    /\ last.op = "write" /\ last.ok
    /\ last.arg = "/w/y.json"
    /\ last.ref.kind = "object"
    /\ last.ref.id \in frozen
    /\ src[last.ref.id].op = "fromFile"
    /\ refsMap[last.ref.id].filepath = "./x.json"
    /\ files["/w/y.json"].exists

============================================================================
